---- MODULE Spec2Model ----
(***************************************************************************)
(* CpuTensor of crabml-core/src/tensor/tensor.rs: a strided view over a    *)
(* flat buffer of f32.  A tensor is the record                             *)
(*     [buf, owned, shape, strides]                                        *)
(* where buf is the sequence of elements the Cow points at, owned tells    *)
(* Cow::Owned from Cow::Borrowed, and shape / strides are the two Vecs.    *)
(* The optional name is descriptive only and is left out.  Coordinates,    *)
(* offsets and rows are 0-based as in the source; TLA+ sequences are       *)
(* 1-based, so buf[off + 1] is the element at offset off.                  *)
(*                                                                         *)
(* Every fallible operation yields a result record: Ok(v), Err (an         *)
(* Error of kind TensorError) or Panic (an index or slice out of range, an *)
(* arithmetic overflow, a division by zero: the thread unwinds).           *)
(***************************************************************************)
EXTENDS Integers, Sequences, FiniteSets

\* t      the tensor the caller holds
\* clean  TRUE while t comes from a checked constructor (new, or zeros,
\*        from_raw_bytes, view and the materializing contiguous, which end in
\*        new) by transposes with a permutation of 0..rank-1 and subtensor
\*        calls with row < shape[0]
\* last   the last call: its name, arguments, the tensor it was made on
\*        (pre, with its clean flag) and what it returned
VARIABLES t, clean, last

vars == <<t, clean, last>>

\* ---------------------------------------------------------------- bounds
MaxRank == 3
MaxDim == 2
MaxLen == 4

\* the value the stores write: chunk[0] = 9.0 in test_ref_chunk
WriteVal == 9

\* --------------------------------------------------------------- results
Ok(v) == [kind |-> "ok", val |-> v]
Err == [kind |-> "err"]
Panic == [kind |-> "panic"]

IsOk(r) == r.kind = "ok"
IsErr(r) == r.kind = "err"
IsPanic(r) == r.kind = "panic"

\* ------------------------------------------------------------- utilities
RECURSIVE Product(_)
Product(s) == IF s = <<>> THEN 1 ELSE Head(s) * Product(Tail(s))

Reverse(s) == [k \in 1..Len(s) |-> s[Len(s) + 1 - k]]

Min(a, b) == IF a <= b THEN a ELSE b

\* buf[lo..hi) of a slice expression, for lo <= hi <= Len(buf)
Slice(buf, lo, hi) == SubSeq(buf, lo + 1, hi)

\* ---------------------------------------------------------- construction
\* #[derive(Default)]: an owned empty buffer, empty shape, empty strides
DefaultTensor == [buf |-> <<>>, owned |-> TRUE, shape |-> <<>>, strides |-> <<>>]

\* the loop of new_unchecked: strides starts as [1]; iteration i pushes
\* strides.last() * shape[shape.len() - i - 1]
RECURSIVE StridesLoop(_, _, _)
StridesLoop(shape, i, strides) ==
    IF i >= Len(shape) - 1 THEN strides
    ELSE StridesLoop(shape, i + 1,
                     Append(strides, strides[Len(strides)] * shape[Len(shape) - i]))

\* new_unchecked: with an empty shape, shape.len() - 1 underflows (a panic
\* in a debug build; in a release build the loop's first shape[usize::MAX]
\* is out of range), so no rank-0 tensor is ever built
NewUnchecked(buf, owned, shape) ==
    IF Len(shape) = 0 THEN Panic
    ELSE Ok([buf |-> buf, owned |-> owned, shape |-> shape,
             strides |-> Reverse(StridesLoop(shape, 0, <<1>>))])

New(buf, owned, shape) ==
    IF Len(buf) # Product(shape) THEN Err
    ELSE NewUnchecked(buf, owned, shape)

Zeros(shape) == New([i \in 1..Product(shape) |-> 0], TRUE, shape)

\* from_raw_bytes: the byte length must be a multiple of size_of::<f32>() = 4
\* (assert_eq!); element i is the f32 whose bits are bytes 4i..4i+3, named
\* here by its bit pattern; the buffer is borrowed
FromRawBytes(bytes, shape) ==
    IF Len(bytes) % 4 # 0 THEN Panic
    ELSE New([i \in 1..(Len(bytes) \div 4) |->
                 bytes[4 * i - 3] + 256 * bytes[4 * i - 2]
                 + 65536 * bytes[4 * i - 1] + 16777216 * bytes[4 * i]],
             FALSE, shape)

\* #[derive(Clone)]: a borrowed buffer is borrowed again, an owned one copied
Clone(x) == [buf |-> [i \in 1..Len(x.buf) |-> x.buf[i]], owned |-> x.owned,
             shape |-> x.shape, strides |-> x.strides]

\* ------------------------------------------------------------ addressing
TensorLen(x) == Product(x.shape)

\* buf_offset: the zip stops at the shorter of idx and strides
RECURSIVE OffsetSum(_, _, _)
OffsetSum(idx, strides, n) ==
    IF n = 0 THEN 0 ELSE OffsetSum(idx, strides, n - 1) + idx[n] * strides[n]

BufOffset(x, idx) == OffsetSum(idx, x.strides, Min(Len(idx), Len(x.strides)))

AtUnchecked(x, idx) ==
    LET offset == BufOffset(x, idx)
    IN  IF offset >= Len(x.buf) THEN Panic ELSE Ok(x.buf[offset + 1])

At(x, idx) ==
    IF Len(idx) # Len(x.shape) THEN Err
    ELSE IF \E i \in 1..Len(idx) : idx[i] >= x.shape[i] THEN Err
    ELSE AtUnchecked(x, idx)

IsOwned(x) == x.owned

\* is_contiguous: the loop runs i = shape.len()-1 down to 1 (0-based), so
\* strides[0] is never compared
RECURSIVE ContigLoop(_, _, _)
ContigLoop(x, i, last_stride) ==
    IF i < 1 THEN TRUE
    ELSE IF last_stride # x.strides[i + 1] THEN FALSE
    ELSE ContigLoop(x, i - 1, last_stride * x.shape[i + 1])

IsContiguous(x) ==
    IF Len(x.strides) = 0 THEN TRUE
    ELSE IF x.strides[Len(x.strides)] # 1 THEN FALSE
    ELSE ContigLoop(x, Len(x.shape) - 1, 1)

\* ----------------------------------------------------------------- views
View(x, shape) ==
    IF Product(shape) # TensorLen(x) THEN Err
    ELSE IF ~IsContiguous(x) THEN Err
    ELSE New(x.buf, x.owned, shape)

\* transpose permuting the shape and leaving the strides as they were
TransposeShapeOnly(x, perm) ==
    IF Len(perm) # Len(x.shape) THEN Err
    ELSE IF \E i \in 1..Len(perm) : perm[i] >= Len(x.shape) THEN Panic
    ELSE Ok([buf |-> x.buf, owned |-> x.owned,
             shape |-> [i \in 1..Len(perm) |-> x.shape[perm[i] + 1]],
             strides |-> x.strides])

\* transpose: self.shape[dim] with dim >= rank is an index out of range
Transpose(x, perm) ==
    IF Len(perm) # Len(x.shape) THEN Err
    ELSE IF \E i \in 1..Len(perm) : perm[i] >= Len(x.shape) THEN Panic
    ELSE Ok([buf |-> x.buf, owned |-> x.owned,
             shape |-> [i \in 1..Len(perm) |-> x.shape[perm[i] + 1]],
             strides |-> [i \in 1..Len(perm) |-> x.strides[perm[i] + 1]]])

\* slice_buf: data[range] panics unless start <= end <= data.len(); a
\* borrowed buffer is re-borrowed, an owned one copied into a new Vec
SliceBuf(x, lo, hi) ==
    IF lo > hi \/ hi > Len(x.buf) THEN Panic ELSE Ok(Slice(x.buf, lo, hi))

\* subtensor: the contiguous branch slices strides[0] elements at
\* row * strides[0]; the other branch slices from buf_offset([row, 0, ..])
\* to the end of the buffer.  row is not compared with shape[0].
Subtensor(x, row) ==
    IF Len(x.shape) <= 1 THEN Err
    ELSE LET idx == [i \in 1..Len(x.shape) |-> IF i = 1 THEN row ELSE 0]
             buf == IF IsContiguous(x)
                    THEN SliceBuf(x, row * x.strides[1],
                                  row * x.strides[1] + x.strides[1])
                    ELSE SliceBuf(x, BufOffset(x, idx), Len(x.buf))
         IN  IF IsPanic(buf) THEN Panic
             ELSE Ok([buf |-> buf.val, owned |-> x.owned,
                      shape |-> Tail(x.shape), strides |-> Tail(x.strides)])

\* ------------------------------------------------------------- iteration
\* the multi-index of TensorIterator::next: from the last dimension,
\* idx = lp % dim, lp = (lp - idx) / dim (dim = 0 is a division by zero,
\* which the caller rules out)
RECURSIVE IdxBuf(_, _)
IdxBuf(shape, lp) ==
    IF shape = <<>> THEN <<>>
    ELSE LET n == Len(shape)
             idx == lp % shape[n]
         IN  Append(IdxBuf(SubSeq(shape, 1, n - 1), (lp - idx) \div shape[n]), idx)

\* one call of next(): Ok(<<v>>) is Some(v), Ok(<<>>) is None.  The
\* general iterator stops at buf.len(), the rank-1 iterator at shape[0].
TensorIteratorNext(x, logical_pos) ==
    IF logical_pos >= Len(x.buf) THEN Ok(<<>>)
    ELSE IF \E i \in 1..Len(x.shape) : x.shape[i] = 0 THEN Panic
    ELSE LET offset == BufOffset(x, IdxBuf(x.shape, logical_pos))
         IN  IF offset >= Len(x.buf) THEN Panic ELSE Ok(<<x.buf[offset + 1]>>)

Tensor1DIteratorNext(x, logical_pos) ==
    IF logical_pos >= x.shape[1] THEN Ok(<<>>)
    ELSE LET physical_pos == logical_pos * x.strides[1]
         IN  IF physical_pos >= Len(x.buf) THEN Panic
             ELSE Ok(<<x.buf[physical_pos + 1]>>)

IterNext(x, logical_pos) ==
    IF Len(x.shape) = 1 THEN Tensor1DIteratorNext(x, logical_pos)
    ELSE TensorIteratorNext(x, logical_pos)

\* iter().collect(): next() until None
RECURSIVE Collect(_, _, _)
Collect(x, logical_pos, acc) ==
    LET r == IterNext(x, logical_pos)
    IN  IF IsPanic(r) THEN Panic
        ELSE IF r.val = <<>> THEN Ok(acc)
        ELSE Collect(x, logical_pos + 1, acc \o r.val)

Iter(x) == Collect(x, 0, <<>>)

Contiguous(x) ==
    IF IsContiguous(x) THEN Ok(x)
    ELSE LET buf == Iter(x)
         IN  IF IsPanic(buf) THEN Panic ELSE New(buf.val, TRUE, x.shape)

\* ---------------------------------------------------------------- chunks
\* offset_start .. offset_start + strides[pos.len() - 1]; with an empty
\* pos the index pos.len() - 1 underflows (a panic in either build), and a
\* range past the end of the buffer is a slice panic
ChunkRange(x, pos) ==
    IF Len(pos) = 0 THEN Panic
    ELSE LET offset_start == BufOffset(x, pos)
             offset_end == offset_start + x.strides[Len(pos)]
         IN  IF offset_end > Len(x.buf) THEN Panic
             ELSE Ok([lo |-> offset_start, hi |-> offset_end])

RefChunk(x, pos) ==
    IF ~IsContiguous(x) THEN Err
    ELSE IF Len(pos) >= Len(x.shape) THEN Err
    ELSE ChunkRange(x, pos)

MutChunk(x, pos) ==
    IF ~IsContiguous(x) THEN Err
    ELSE IF ~IsOwned(x) THEN Err
    ELSE IF Len(pos) >= Len(x.shape) THEN Err
    ELSE ChunkRange(x, pos)

MutBuf(x) ==
    IF ~x.owned THEN Err ELSE Ok([lo |-> 0, hi |-> Len(x.buf)])

\* a store through a range a mutable accessor returned: range[k] = v
WriteThrough(x, range, k, v) == [x EXCEPT !.buf[range.lo + k + 1] = v]

\* copy_chunk: copy_from_slice panics unless both lengths agree
CopyChunk(x, pos, data) ==
    LET r == MutChunk(x, pos)
    IN  IF ~IsOk(r) THEN r
        ELSE IF r.val.hi - r.val.lo # Len(data.buf) THEN Panic
        ELSE Ok([x EXCEPT !.buf = [i \in 1..Len(x.buf) |->
                    IF i > r.val.lo /\ i <= r.val.hi
                    THEN data.buf[i - r.val.lo] ELSE x.buf[i]]])

\* ------------------------------------------------------- the input space
SeqsUpTo(n, S) == UNION {[1..k -> S] : k \in 0..n}

\* shapes have extents from 1 to MaxDim (with an extent of 0 the buffer, and
\* every view of it, is empty); coordinates run to MaxDim, one past the
\* largest in range
Shapes == SeqsUpTo(MaxRank, 1..MaxDim)
Idxs == SeqsUpTo(MaxRank, 0..MaxDim)
\* transpose arguments: sequences of distinct axes, of any length, naming
\* axes the tensor may not have
Perms == {p \in SeqsUpTo(MaxRank, 0..(MaxRank - 1)) :
            \A i, j \in 1..Len(p) : i # j => p[i] # p[j]}
\* chunk positions: coordinate prefixes
Poss == SeqsUpTo(MaxRank - 1, 0..MaxDim)
Rows == 0..(MaxDim - 1)
Bufs == {[i \in 1..n |-> i] : n \in 0..MaxLen}
\* byte buffers of every length up to MaxLen elements of 4 bytes: the
\* elements 1, 2, ... of Bufs as bit patterns, low byte first
Bytes == {[i \in 1..n |-> IF i % 4 = 1 THEN (i + 3) \div 4 ELSE 0] : n \in 0..(4 * MaxLen)}

IsPerm(perm) == \A k \in 0..(Len(perm) - 1) : \E i \in 1..Len(perm) : perm[i] = k

\* ------------------------------------------------------------ the machine
Call(op, arg, data, out) ==
    [op |-> op, arg |-> arg, data |-> data, own |-> t.owned, pre |-> t,
     preclean |-> clean, out |-> out]

\* the calls that only read the tensor
Reads == {"at", "iter", "is_contiguous", "ref_chunk"}

\* the calls that store into the buffer
Stores == {"mut_chunk", "mut_buf", "copy_chunk"}

\* A run is a chain of calls on the tensor the previous call left, as in
\* the `?` chains of the tests: it builds a tensor, derives views from it
\* while the calls return Ok, and ends at a TensorError, at a panic, at a
\* read or at a store.  A read changes nothing, so the runs that would
\* follow it are the runs that follow the state it was made in; what a
\* read after a store returns is computed from the stored-to tensor t.
Running == last.op \notin (Reads \cup Stores \cup {"start"}) /\ IsOk(last.out)

\* nothing is built yet; t holds CpuTensor::default() until new() or zeros()
Init ==
    /\ t = DefaultTensor
    /\ clean = FALSE
    /\ last = [op |-> "start", arg |-> <<>>, data |-> <<>>, own |-> TRUE,
               pre |-> DefaultTensor, preclean |-> FALSE, out |-> Ok(DefaultTensor)]

\* CpuTensor::new(buf, shape) with a Vec (owned) or a slice (borrowed)
DoNew ==
    \E buf \in Bufs, shape \in Shapes, owned \in BOOLEAN :
        LET r == New(buf, owned, shape)
        IN  /\ last.op = "start"
            /\ last' = [Call("new", shape, buf, r) EXCEPT !.own = owned]
            /\ t' = IF IsOk(r) THEN r.val ELSE t
            /\ clean' = IsOk(r)

\* CpuTensor::new_unchecked(buf, shape): public, and without the length
\* check of new(); the tensor it returns is the one new() returns exactly
\* when buf.len() = product(shape).  Shapes of at most MaxLen elements, as
\* for zeros and view.
DoNewUnchecked ==
    /\ last.op = "start"
    /\ \E buf \in Bufs, shape \in Shapes, owned \in BOOLEAN :
           LET r == NewUnchecked(buf, owned, shape)
           IN  /\ Product(shape) <= MaxLen
               /\ last' = [Call("new_unchecked", shape, buf, r) EXCEPT !.own = owned]
               /\ t' = IF IsOk(r) THEN r.val ELSE t
               /\ clean' = (IsOk(r) /\ Len(buf) = Product(shape))

DoZeros ==
    \E shape \in Shapes :
        LET r == Zeros(shape)
        IN  /\ last.op = "start"
            /\ Product(shape) <= MaxLen
            /\ last' = Call("zeros", shape, <<>>, r)
            /\ t' = IF IsOk(r) THEN r.val ELSE t
            /\ clean' = IsOk(r)

\* CpuTensor::from_raw_bytes(buf, shape).  slice::from_raw_parts on a byte
\* slice that is not aligned for f32 is undefined behaviour: the build
\* either stops at the precondition check or reads the elements
DoFromRawBytes ==
    /\ last.op = "start"
    /\ \E bytes \in Bytes, shape \in Shapes, aligned \in BOOLEAN, stops \in BOOLEAN :
           LET r == IF ~aligned /\ stops /\ Len(bytes) % 4 = 0 THEN Panic
                    ELSE FromRawBytes(bytes, shape)
           IN  /\ last' = [Call("from_raw_bytes", shape, bytes, r) EXCEPT !.own = FALSE]
               /\ t' = IF IsOk(r) THEN r.val ELSE t
               /\ clean' = IsOk(r)

\* transpose and view take self by value; on an error the caller is left
\* with the tensor it cloned beforehand, which is t
DoTranspose ==
    \E perm \in Perms :
        LET r == Transpose(t, perm)
        IN  /\ Running
            /\ last' = Call("transpose", perm, <<>>, r)
            /\ t' = IF IsOk(r) THEN r.val ELSE t
            /\ clean' = IF IsOk(r) THEN clean /\ IsPerm(perm) ELSE clean

DoSubtensor ==
    \E row \in Rows :
        LET r == Subtensor(t, row)
        IN  /\ Running
            /\ last' = Call("subtensor", <<row>>, <<>>, r)
            /\ t' = IF IsOk(r) THEN r.val ELSE t
            /\ clean' = IF IsOk(r) THEN clean /\ row < t.shape[1] ELSE clean

DoView ==
    \E shape \in Shapes :
        LET r == View(t, shape)
        IN  /\ Running
            /\ Product(shape) <= MaxLen
            /\ last' = Call("view", shape, <<>>, r)
            /\ t' = IF IsOk(r) THEN r.val ELSE t
            /\ clean' = IF IsOk(r) THEN TRUE ELSE clean

DoContiguous ==
    LET r == Contiguous(t)
    IN  /\ Running
        /\ last' = Call("contiguous", <<>>, <<>>, r)
        /\ t' = IF IsOk(r) THEN r.val ELSE t
        /\ clean' = IF IsOk(r) /\ ~IsContiguous(t) THEN TRUE ELSE clean

\* let t = t.clone()
DoClone ==
    /\ Running
    /\ last' = Call("clone", <<>>, <<>>, Ok(Clone(t)))
    /\ t' = Clone(t)
    /\ clean' = clean

DoAt ==
    \E idx \in Idxs :
        /\ Running
        /\ last' = Call("at", idx, <<>>, At(t, idx))
        /\ UNCHANGED <<t, clean>>

DoIter ==
    /\ Running
    /\ last' = Call("iter", <<>>, <<>>, Iter(t))
    /\ UNCHANGED <<t, clean>>

DoIsContiguous ==
    /\ Running
    /\ last' = Call("is_contiguous", <<>>, <<>>, Ok(IsContiguous(t)))
    /\ UNCHANGED <<t, clean>>

DoRefChunk ==
    \E pos \in Poss :
        /\ Running
        /\ last' = Call("ref_chunk", pos, <<>>, RefChunk(t, pos))
        /\ UNCHANGED <<t, clean>>

\* mut_chunk(pos)?[k] = WriteVal
DoMutChunk ==
    \E pos \in Poss, k \in 0..(MaxLen - 1) :
        LET r == MutChunk(t, pos)
        IN  /\ Running
            /\ IF IsOk(r) THEN k < r.val.hi - r.val.lo ELSE k = 0
            /\ last' = Call("mut_chunk", pos, <<k>>, r)
            /\ t' = IF IsOk(r) THEN WriteThrough(t, r.val, k, WriteVal) ELSE t
            /\ clean' = IF IsOk(r) THEN FALSE ELSE clean

\* mut_buf()?[k] = WriteVal
DoMutBuf ==
    \E k \in 0..(MaxLen - 1) :
        LET r == MutBuf(t)
        IN  /\ Running
            /\ IF IsOk(r) THEN k < r.val.hi - r.val.lo ELSE k = 0
            /\ last' = Call("mut_buf", <<>>, <<k>>, r)
            /\ t' = IF IsOk(r) THEN WriteThrough(t, r.val, k, WriteVal) ELSE t
            /\ clean' = IF IsOk(r) THEN FALSE ELSE clean

\* copy_chunk(pos, &CpuTensor::zeros(vec![n]))
DoCopyChunk ==
    \E pos \in Poss, n \in 0..MaxDim :
        LET r == CopyChunk(t, pos, Zeros(<<n>>).val)
        IN  /\ Running
            /\ last' = Call("copy_chunk", pos, Zeros(<<n>>).val.buf, r)
            /\ t' = IF IsOk(r) THEN r.val ELSE t
            /\ clean' = IF IsOk(r) THEN FALSE ELSE clean

Next ==
    \/ DoNew
    \/ DoNewUnchecked
    \/ DoZeros
    \/ DoFromRawBytes
    \/ DoTranspose
    \/ DoSubtensor
    \/ DoView
    \/ DoContiguous
    \/ DoClone
    \/ DoAt
    \/ DoIter
    \/ DoIsContiguous
    \/ DoRefChunk
    \/ DoMutChunk
    \/ DoMutBuf
    \/ DoCopyChunk

Spec == Init /\ [][Next]_vars

\* the calls that build and derive tensors, without the reads and stores
\* that end a run: the same tensors are reached
NextViews ==
    \/ DoNew
    \/ DoNewUnchecked
    \/ DoZeros
    \/ DoFromRawBytes
    \/ DoTranspose
    \/ DoSubtensor
    \/ DoView
    \/ DoContiguous
    \/ DoClone

SpecViews == Init /\ [][NextViews]_vars

\* the calls that give a tensor its layout: the two constructors that take
\* a buffer, and transpose and subtensor, which change shape, strides and
\* buffer.  zeros, from_raw_bytes, view and the materializing contiguous
\* end in new and clone copies, so they add no layout to these.
NextLayouts ==
    \/ DoNew
    \/ DoNewUnchecked
    \/ DoTranspose
    \/ DoSubtensor

SpecLayouts == Init /\ [][NextLayouts]_vars

\* ------------------------------------------------- the claims' vocabulary
\* the data model's contiguity: last stride 1 and
\* strides[i] = strides[i+1] * shape[i+1] for every i, the leading one included
Canonical(x) ==
    \/ Len(x.shape) = 0
    \/ /\ x.strides[Len(x.strides)] = 1
       /\ \A i \in 1..(Len(x.shape) - 1) : x.strides[i] = x.strides[i + 1] * x.shape[i + 1]

\* the multi-indices in bounds for a shape, and an index's row-major position
InBounds(shape) ==
    {idx \in [1..Len(shape) -> 0..MaxDim] : \A i \in 1..Len(shape) : idx[i] < shape[i]}

RECURSIVE RowMajorPos(_, _)
RowMajorPos(shape, idx) ==
    IF shape = <<>> THEN 0
    ELSE LET n == Len(shape)
         IN  RowMajorPos(SubSeq(shape, 1, n - 1), SubSeq(idx, 1, n - 1)) * shape[n] + idx[n]

RowMajorIndex(shape, k) == CHOOSE idx \in InBounds(shape) : RowMajorPos(shape, idx) = k

\* sum of index[i] * strides[i] over all of index
RECURSIVE Dot(_, _)
Dot(idx, strides) ==
    IF idx = <<>> THEN 0 ELSE Head(idx) * Head(strides) + Dot(Tail(idx), Tail(strides))

Identity(n) == [i \in 1..n |-> i - 1]
Inverse(p) == [i \in 1..Len(p) |-> (CHOOSE j \in 1..Len(p) : p[j] = i - 1) - 1]

\* ---------------------------------------------------------------- claims
\* C1: at(index) returns a TensorError exactly when index.length != rank or
\* some index[i] >= shape[i]; for every other index it returns the buffer
\* element at offset sum(index[i] * strides[i]); it never modifies the tensor.
\* Stated of the tensors new() and valid transpose / subtensor calls produce.
C1_AtContract ==
    last.op = "at" /\ last.preclean =>
        LET x == last.pre
            idx == last.arg
            bad == Len(idx) # Len(x.shape) \/ \E i \in 1..Len(idx) : idx[i] >= x.shape[i]
        IN  /\ IsErr(last.out) <=> bad
            /\ ~bad => /\ IsOk(last.out)
                       /\ Dot(idx, x.strides) < Len(x.buf)
                       /\ last.out.val = x.buf[Dot(idx, x.strides) + 1]
            /\ t = x

\* C2: on a tensor obtained from new() by valid transposes and in-range
\* subtensor calls, iter() yields exactly len() = product(shape) elements,
\* the k-th being at(index_k) for the k-th multi-index in row-major order;
\* on a contiguous tensor the sequence is the raw buffer.  Stated of the
\* iterations that run to their end.
C2_IterRowMajor ==
    last.op = "iter" /\ last.preclean /\ IsOk(last.out) =>
        LET x == last.pre
        IN  /\ Len(last.out.val) = Product(x.shape)
            /\ \A k \in 0..(Product(x.shape) - 1) :
                   LET e == At(x, RowMajorIndex(x.shape, k))
                   IN  IsOk(e) /\ last.out.val[k + 1] = e.val
            /\ Canonical(x) => last.out.val = x.buf

\* C3: transpose(p) with a permutation p of 0..rank-1 keeps the buffer and
\* gives shape'[i] = shape[p[i]], strides'[i] = strides[p[i]]; the identity
\* gives back the tensor; transpose(inverse(p)) after transpose(p) gives
\* back shape, strides and iteration order; a p of another length is a
\* TensorError.
C3_TransposePermutes ==
    last.op = "transpose" =>
        LET x == last.pre
            p == last.arg
        IN  /\ Len(p) # Len(x.shape) => IsErr(last.out)
            /\ Len(p) = Len(x.shape) /\ IsPerm(p) =>
                   /\ IsOk(last.out)
                   /\ last.out.val.buf = x.buf
                   /\ Len(last.out.val.shape) = Len(p)
                   /\ Len(last.out.val.strides) = Len(p)
                   /\ \A i \in 1..Len(p) :
                          /\ last.out.val.shape[i] = x.shape[p[i] + 1]
                          /\ last.out.val.strides[i] = x.strides[p[i] + 1]
                   /\ p = Identity(Len(p)) => last.out.val = x
                   /\ LET back == Transpose(last.out.val, Inverse(p))
                      IN  /\ IsOk(back)
                          /\ back.val.shape = x.shape
                          /\ back.val.strides = x.strides
                          /\ Iter(back.val) = Iter(x)

\* a transpose by the cycle (1 2 0), which is not its own inverse, of a
\* tensor whose three strides differ
C3_Witness ==
    /\ last.op = "transpose"
    /\ IsOk(last.out)
    /\ last.arg = <<1, 2, 0>>
    /\ last.pre.shape = <<1, 2, 2>>
    /\ last.pre.strides = <<4, 2, 1>>

\* C4: on a tensor of rank >= 2 obtained from new() by valid transposes and
\* in-range subtensor calls, subtensor(row) with row < shape[0] succeeds
\* with shape[1..], strides[1..] and at(rest) equal to the source's
\* at([row] ++ rest); from a contiguous source its buffer is exactly those
\* product(shape[1..]) elements; on rank <= 1 it is a TensorError.
C4_SubtensorSelectsRow ==
    last.op = "subtensor" /\ last.preclean =>
        LET x == last.pre
            row == last.arg[1]
        IN  /\ Len(x.shape) <= 1 => IsErr(last.out)
            /\ Len(x.shape) >= 2 /\ row < x.shape[1] =>
                   /\ IsOk(last.out)
                   /\ last.out.val.shape = Tail(x.shape)
                   /\ last.out.val.strides = Tail(x.strides)
                   /\ \A rest \in InBounds(Tail(x.shape)) :
                          /\ IsOk(At(last.out.val, rest))
                          /\ At(last.out.val, rest) = At(x, <<row>> \o rest)
                   /\ Canonical(x) =>
                          last.out.val.buf =
                              Slice(x.buf, row * Product(Tail(x.shape)),
                                    (row + 1) * Product(Tail(x.shape)))

\* C5: on a tensor obtained from new() by valid transposes and in-range
\* subtensor calls, contiguous() succeeds; a contiguous tensor comes back
\* with the same shape, strides and buffer; any other comes back owned,
\* with the same shape, canonical strides, and the source's iter() sequence
\* as its buffer and as its own iter() sequence.
\* Stated of the tensors on whose contiguity the data model and
\* is_contiguous() agree.
C5_ContiguousMaterializes ==
    last.op = "contiguous" /\ last.preclean =>
        LET x == last.pre
        IN  /\ IsOk(last.out)
            /\ Canonical(x) /\ IsContiguous(x) =>
                   /\ last.out.val.shape = x.shape
                   /\ last.out.val.strides = x.strides
                   /\ last.out.val.buf = x.buf
            /\ ~Canonical(x) /\ ~IsContiguous(x) =>
                   /\ last.out.val.owned
                   /\ last.out.val.shape = x.shape
                   /\ Canonical(last.out.val)
                   /\ IsOk(Iter(x))
                   /\ last.out.val.buf = Iter(x).val
                   /\ Iter(last.out.val) = Iter(x)

\* a position prefix that leaves a trailing dimension, coordinates in range
ValidPos(x, pos) ==
    /\ Len(pos) >= 1
    /\ Len(pos) < Len(x.shape)
    /\ \A i \in 1..Len(pos) : pos[i] < x.shape[i]

\* the dimensions a position prefix leaves
Trailing(x, pos) == SubSeq(x.shape, Len(pos) + 1, Len(x.shape))

\* C6: mut_chunk, copy_chunk and mut_buf on a borrowed tensor return a
\* TensorError and leave the tensor as it was; on an owned contiguous tensor
\* with a valid position they succeed, and what is stored through the
\* returned range is what ref_chunk, at and iter then read at that place.
\* Stated of the tensors new() and valid transpose / subtensor calls produce.
C6_MutationGuard ==
    last.op \in Stores /\ last.preclean =>
        LET x == last.pre
            pos == last.arg
        IN  /\ ~x.owned => IsErr(last.out) /\ t = x
            /\ last.op = "mut_buf" /\ x.owned =>
                   /\ IsOk(last.out)
                   /\ Len(x.buf) > 0 => t.buf[last.data[1] + 1] = WriteVal
            /\ /\ last.op = "mut_chunk"
               /\ x.owned /\ IsContiguous(x) /\ Canonical(x) /\ ValidPos(x, pos)
               /\ Product(Trailing(x, pos)) > 0
               => /\ IsOk(last.out)
                  /\ LET idx == pos \o RowMajorIndex(Trailing(x, pos), last.data[1])
                         chunk == RefChunk(t, pos)
                     IN  /\ At(t, idx) = Ok(WriteVal)
                         /\ IsOk(chunk)
                         /\ t.buf[chunk.val.lo + last.data[1] + 1] = WriteVal
                         /\ IsOk(Iter(t))
                         /\ Iter(t).val[RowMajorPos(t.shape, idx) + 1] = WriteVal
            /\ /\ last.op = "copy_chunk"
               /\ x.owned /\ IsContiguous(x) /\ Canonical(x) /\ ValidPos(x, pos)
               /\ Len(last.data) = Product(Trailing(x, pos))
               => /\ IsOk(last.out)
                  /\ \A j \in 0..(Len(last.data) - 1) :
                         At(t, pos \o RowMajorIndex(Trailing(x, pos), j))
                             = Ok(last.data[j + 1])

\* C7: for every buffer and shape of any rank, the empty shape included,
\* new(buffer, shape) succeeds iff buffer.length = product(shape) and is a
\* TensorError otherwise; on success len() = buffer.length and the tensor
\* has the ownership mode of the buffer.
C7_NewValidates ==
    last.op = "new" =>
        /\ Len(last.data) = Product(last.arg) =>
               /\ IsOk(last.out)
               /\ TensorLen(last.out.val) = Len(last.data)
               /\ last.out.val.owned = last.own
        /\ Len(last.data) # Product(last.arg) => IsErr(last.out)

\* C8: view(newShape) is a TensorError if product(newShape) # len() or the
\* tensor is not contiguous in the data model's sense; otherwise it
\* succeeds with shape newShape, canonical strides, the same buffer and
\* ownership mode, and the source's iter() sequence.
\* Stated of the tensors new() and valid transpose / subtensor calls produce.
C8_ViewReshapes ==
    last.op = "view" /\ last.preclean =>
        LET x == last.pre
            refused == Product(last.arg) # TensorLen(x) \/ ~Canonical(x)
        IN  /\ refused => IsErr(last.out)
            /\ ~refused =>
                   /\ IsOk(last.out)
                   /\ last.out.val.shape = last.arg
                   /\ Len(last.out.val.strides) = Len(last.arg)
                   /\ Canonical(last.out.val)
                   /\ last.out.val.buf = x.buf
                   /\ last.out.val.owned = x.owned
                   /\ Iter(last.out.val) = Iter(x)

\* C9: on a contiguous tensor, ref_chunk(pos) with pos of any length from 0
\* to rank-1 and coordinates in range succeeds and returns the range
\* [off, off + product(shape[pos.length..])) at off = sum(pos[i] * strides[i]):
\* the elements whose index starts with pos, in row-major order; mut_chunk
\* returns the same range on an owned tensor.  ref_chunk is a TensorError if
\* the tensor is not contiguous or pos.length >= rank.
\* Stated of the tensors new() and valid transpose / subtensor calls
\* produce on whose contiguity the data model and is_contiguous() agree.
C9_RefChunkBlock ==
    /\ last.op = "ref_chunk" /\ last.preclean =>
        LET x == last.pre
            pos == last.arg
        IN  /\ (~Canonical(x) /\ ~IsContiguous(x)) \/ Len(pos) >= Len(x.shape)
                   => IsErr(last.out)
            /\ /\ Canonical(x) /\ IsContiguous(x)
               /\ Len(pos) < Len(x.shape)
               /\ \A i \in 1..Len(pos) : pos[i] < x.shape[i]
               => /\ IsOk(last.out)
                  /\ last.out.val.lo = Dot(pos, x.strides)
                  /\ last.out.val.hi = last.out.val.lo + Product(Trailing(x, pos))
                  /\ \A j \in 0..(Product(Trailing(x, pos)) - 1) :
                         Ok(x.buf[last.out.val.lo + j + 1])
                             = At(x, pos \o RowMajorIndex(Trailing(x, pos), j))
    /\ last.op = "mut_chunk" /\ last.preclean /\ last.pre.owned =>
        last.out = RefChunk(last.pre, last.arg)

\* C10: is_contiguous() is true iff the rank is 0, or the last stride is 1
\* and strides[i] = strides[i+1] * shape[i+1] for every i down to 0, on every
\* tensor obtained from new() by valid transposes and in-range subtensor
\* calls; a freshly constructed tensor is contiguous.
\* Stated of the tensors with more than one row.
C10_IsContiguousCanonical ==
    /\ last.op = "is_contiguous" /\ last.preclean /\ last.pre.shape[1] > 1 =>
           last.out.val = Canonical(last.pre)
    /\ last.op = "new" /\ IsOk(last.out) =>
           IsContiguous(last.out.val) /\ Canonical(last.out.val)

\* C11: every tensor reached from new / zeros / from_raw_bytes by
\* transposes with a permutation, in-range subtensor calls, view,
\* contiguous and clone has buffer.length = product(shape) and
\* strides.length = shape.length; subtensor and transpose hand the
\* property on from the tensor they are called on.
C11_BufferMatchesShape ==
    /\ clean => /\ Len(t.buf) = Product(t.shape)
                /\ Len(t.strides) = Len(t.shape)
    /\ /\ last.op \in {"transpose", "subtensor"}
       /\ last.preclean /\ clean /\ IsOk(last.out)
       /\ Len(last.pre.buf) = Product(last.pre.shape)
       => Len(last.out.val.buf) = Product(last.out.val.shape)

====
